---- MODULE Spec2Model ----
(***************************************************************************)
(* Conversation state machine and session orchestrator of the restaurant   *)
(* phone-order voice agent.                                                *)
(*                                                                         *)
(* The live turn logic is AgentService.process_user_input (agent.py) and   *)
(* CallSessionManager.process_user_speech (manager.py).  agent.py and      *)
(* manager.py use ConversationStage.REVISION, which the stages.py under    *)
(* src/ does not declare (the unit tests run process_user_speech through   *)
(* the stage table that names it), so the stage is taken from the          *)
(* specification's stage list.  StageTransitionHandler                     *)
(* (stage_transitions.py) is not called by either of them.                 *)
(***************************************************************************)
EXTENDS Integers, Sequences, FiniteSets, TLC

VARIABLES
    sessions,   \* manager._sessions: call_sid -> ConversationState of the stored CallSession
    inp,        \* the inbound event handled last: utterance, extraction result, storage outcome
    out,        \* what the last handler returned: reply text, TwiML kind, persistence outcome
    db,         \* the database: the Call record of the call and its Order rows
    failRun,    \* history: length of the current run of turns on which extraction failed (saturates at 3)
    readRun,    \* history: length of the current run of replies that were the order read-back (saturates at 2)
    objs,       \* concurrent creation: the CallSession objects constructed so far
    store,      \* concurrent creation: _sessions[call_sid] as an index into objs (0 = absent)
    task        \* concurrent creation: per webhook handler, its position and its local session reference

vars == <<sessions, inp, out, db, failRun, readRun, objs, store, task>>

(***************************************************************************)
(* Bounds                                                                  *)
(***************************************************************************)
MaxItems == 1        \* longest order explored
TurnCap == 21        \* accepted utterances explored per call (one past MAX_TURNS)
ShortTurns == 4      \* accepted utterances explored on a short call
ShortItems == 2      \* longest order explored on a short call
TranscriptKeep == 1  \* most recent transcript lines kept in the model
MaxOrders == 1       \* Order rows written per call
ShortOrders == 2     \* Order rows written on a short call
MaxHandlers == 2     \* concurrent first webhooks for one new call

(***************************************************************************)
(* Program constants                                                       *)
(***************************************************************************)
MAX_TURNS == 20
MAX_CONSECUTIVE_ERRORS == 3
MIN_SPEECH_LEN == 2

GREETING == "greeting"
ORDERING == "ordering"
REVIEW == "review"
REVISION == "revision"
CONCLUSION == "conclusion"

ConversationStage == {GREETING, ORDERING, REVIEW, REVISION, CONCLUSION}

CallSid == "CA1"

\* Optional[int] index: order positions are 1-based here, 0 stands for None
NoIndex == 0

(***************************************************************************)
(* Text                                                                    *)
(***************************************************************************)
IsSubstr(p, s) ==
    \E i \in 1..(Len(s) - Len(p) + 1) : SubSeq(s, i, i + Len(p) - 1) = p

UpperChars == "ABCDEFGHIJKLMNOPQRSTUVWXYZ"
LowerChars == "abcdefghijklmnopqrstuvwxyz"

LowerChar(c) ==
    IF \E i \in 1..26 : SubSeq(UpperChars, i, i) = c
    THEN LET i == CHOOSE j \in 1..26 : SubSeq(UpperChars, j, j) = c
         IN  SubSeq(LowerChars, i, i)
    ELSE c

RECURSIVE Lower(_)
Lower(s) ==
    IF Len(s) = 0 THEN s
    ELSE LowerChar(SubSeq(s, 1, 1)) \o Lower(SubSeq(s, 2, Len(s)))

RECURSIVE Strip(_)
Strip(s) ==
    IF Len(s) = 0 THEN s
    ELSE IF SubSeq(s, 1, 1) = " " THEN Strip(SubSeq(s, 2, Len(s)))
    ELSE IF SubSeq(s, Len(s), Len(s)) = " " THEN Strip(SubSeq(s, 1, Len(s) - 1))
    ELSE s

done_ordering_indicators ==
    {"that's all", "that's it", "nothing else", "i'm done", "i'm finished",
     "that's everything", "no that's all", "no thanks that's all"}

revision_indicators ==
    {"change", "remove", "delete", "don't want", "cancel", "take out", "add",
     "actually", "wait", "hold on", "no wait"}

confirmation_indicators ==
    {"yes", "correct", "that's right", "sounds good", "perfect", "that works",
     "looks good"}

repeat_keywords ==
    {"repeat", "say that again", "what did", "can you repeat", "tell me again",
     "what was"}

\* the utterances and item names explored
Utterances == {"", "burger", "no onions", "that's all", "yes"}
ItemNames == {"burger", "fries", "pizza"}

\* further utterances and extraction results explored on short calls
ShortUtterances ==
    {"  ", "a", "yes, actually remove the fries", "can you repeat that"}
AllUtterances == Utterances \cup ShortUtterances

\* str.lower() and str.strip() of the texts explored, computed once
LowerOf == [t \in AllUtterances \cup ItemNames |-> Lower(t)]
StripOf == [t \in AllUtterances \cup ItemNames \cup {LowerOf[u] : u \in AllUtterances \cup ItemNames}
               |-> Strip(t)]

Phrases ==
    done_ordering_indicators \cup revision_indicators \cup confirmation_indicators
    \cup repeat_keywords \cup {"done"}

\* `phrase in text` for the lowered texts, computed once
PhrasesIn ==
    [t \in {LowerOf[u] : u \in AllUtterances} \cup {StripOf[LowerOf[u]] : u \in AllUtterances}
        |-> {p \in Phrases : IsSubstr(p, t)}]

Contains(phrase, text) == phrase \in PhrasesIn[text]

AnyIn(indicators, text) == \E p \in indicators : Contains(p, text)

(***************************************************************************)
(* Reply texts                                                             *)
(***************************************************************************)
RESTAURANT_NAME == "Mama Marias"

MSG_GREETING ==
    "Hi! Thanks for calling " \o RESTAURANT_NAME \o ". What can I get for you today?"
MSG_DIDNT_CATCH == "I didn't catch that. Could you please repeat what you'd like?"
MSG_DIDNT_GET == "I didn't quite get that. Could you please say that again?"
MSG_TURN_LIMIT ==
    "I apologize, but I'm having difficulty completing your order. Would you like me to transfer you to someone who can help?"
MSG_EMPTY_RESPONSE == "I'm sorry, I didn't understand that. Could you please repeat?"
MSG_ERROR_TRANSFER ==
    "I'm having trouble understanding you. Would you like me to transfer you to someone who can help with your order?"
MSG_JSON_FALLBACK == "I'm sorry, I didn't understand that. Could you repeat?"
MSG_LLM_FALLBACK == "I'm having trouble processing that. Could you try again?"
MSG_NO_ITEMS_YET == "I don't see any items in your order yet. What would you like to order?"
MSG_NO_ITEMS == "I don't see any items in your order. What would you like to order?"
MSG_FAREWELL ==
    "Perfect! Thank you for calling " \o RESTAURANT_NAME \o "! Your order will be ready in 30 minutes."
MSG_CALL_BACK ==
    "I'm sorry, we're having technical difficulties. Please call us back in a few minutes to place your order."
MSG_WEBHOOK_ERROR == "I'm sorry, I encountered an error. Please try again."
MSG_READBACK_EMPTY == "Perfect! Here's your order: No items in order yet.. Does that look correct?"

LLM_TEXT == "Got it."


(***************************************************************************)
(* Menu lookup (the menu of tests/conftest.py) and order items             *)
(***************************************************************************)
MenuPriceCents == [burger |-> 1000, fries |-> 350]

\* every name taken for a menu item
validate_item_Any(item_name) == TRUE

\* InMemoryMenuProvider.validate_item
validate_item(item_name) == LowerOf[StripOf[item_name]] \in DOMAIN MenuPriceCents

\* price of an order item in cents, 0 when get_item_by_name finds nothing
ItemPriceCents(item_name) ==
    IF validate_item(item_name) THEN MenuPriceCents[LowerOf[StripOf[item_name]]] ELSE 0

TAX_RATE_E4 == 925      \* settings.tax_rate = 0.0925, in units of 1/10000

OrderItem(name, qty, mods) == [item_name |-> name, quantity |-> qty, modifiers |-> mods]

\* ConversationState as AgentService.initialize_state builds it
initialize_state ==
    [transcript |-> <<>>,
     stage |-> GREETING,
     current_order |-> <<>>,
     order_read_back |-> FALSE,
     turn_count |-> 0,
     consecutive_errors |-> 0,
     pending_modifiers_item_index |-> NoIndex]

has_items(state) == Len(state.current_order) > 0

\* ConversationState.add_transcript_turn; of the transcript the model keeps the
\* TranscriptKeep most recent lines
add_transcript_turn(state, role, text) ==
    LET lines == Append(state.transcript, role \o ": " \o text)
    IN  [state EXCEPT !.transcript =
            IF Len(lines) > TranscriptKeep
            THEN SubSeq(lines, Len(lines) - TranscriptKeep + 1, Len(lines))
            ELSE lines]

(***************************************************************************)
(* Actions carried by an extraction result                                 *)
(***************************************************************************)
\* the "modifiers" key holds a list, or (modifiers_is_str) the one string modifiers[1]
Action(type, name, qty, mods, is_str) ==
    [type |-> type, item_name |-> name, quantity |-> qty, modifiers |-> mods,
     modifiers_is_str |-> is_str]

NoneAction == Action("none", "", 1, <<>>, FALSE)

Digit(d) == SubSeq("0123456789", d + 1, d + 1)

RECURSIVE IntToStr(_)
IntToStr(n) == IF n < 10 THEN Digit(n) ELSE IntToStr(n \div 10) \o Digit(n % 10)

RECURSIVE Join(_, _)
Join(parts, sep) ==
    IF Len(parts) = 0 THEN ""
    ELSE IF Len(parts) = 1 THEN parts[1]
    ELSE parts[1] \o sep \o Join(Tail(parts), sep)

RECURSIVE Subtotal(_)
Subtotal(order) ==
    IF Len(order) = 0 THEN 0
    ELSE ItemPriceCents(order[1].item_name) * order[1].quantity + Subtotal(Tail(order))

(***************************************************************************)
(* Python float arithmetic (IEEE 754 binary64, round to nearest, ties to   *)
(* even) on non-negative values.  A value is bits * 2^exp, bits the        *)
(* significand as a sequence of 0 and 1, most significant first.           *)
(***************************************************************************)
Precision == 53

Float(bits, exp) == [bits |-> bits, exp |-> exp]

Zeros(n) == IF n > 0 THEN [i \in 1..n |-> 0] ELSE <<>>

Ones(b) == {i \in 1..Len(b) : b[i] = 1}

First(S) == CHOOSE i \in S : \A j \in S : i <= j

Last(S) == CHOOSE i \in S : \A j \in S : j <= i

TrimLeadingZeros(b) == IF Ones(b) = {} THEN <<>> ELSE SubSeq(b, First(Ones(b)), Len(b))

RECURSIVE BitsOfNat(_)
BitsOfNat(n) == IF n = 0 THEN <<>> ELSE Append(BitsOfNat(n \div 2), n % 2)

RECURSIVE NatOfBits(_)
NatOfBits(b) ==
    IF Len(b) = 0 THEN 0 ELSE 2 * NatOfBits(SubSeq(b, 1, Len(b) - 1)) + b[Len(b)]

\* the exact sum of two significands
AddBits(a, b) ==
    LET n == IF Len(a) > Len(b) THEN Len(a) ELSE Len(b)
        pa == Zeros(n - Len(a)) \o a
        pb == Zeros(n - Len(b)) \o b
        sum == [i \in 1..n |-> pa[i] + pb[i]]
        \* the carry into position i comes from the nearest lower position that
        \* does not just pass a carry on
        carry(i) ==
            LET decided == {j \in (i + 1)..n : sum[j] # 1}
            IN  IF decided # {} /\ sum[First(decided)] = 2 THEN 1 ELSE 0
    IN  TrimLeadingZeros([i \in 1..(n + 1) |->
            IF i = 1 THEN carry(0) ELSE (sum[i - 1] + carry(i - 1)) % 2])

RECURSIVE ShiftAndAdd(_, _)
ShiftAndAdd(a, b) ==
    IF Len(b) = 0 THEN <<>>
    ELSE AddBits(ShiftAndAdd(a, SubSeq(b, 1, Len(b) - 1)) \o <<0>>,
                 IF b[Len(b)] = 1 THEN a ELSE <<>>)

\* the exact product of two significands
MulBits(a, b) == IF Len(a) < Len(b) THEN ShiftAndAdd(b, a) ELSE ShiftAndAdd(a, b)

\* trailing zero bits moved into the exponent
Normal(f) ==
    IF Ones(f.bits) = {} THEN Float(<<>>, 0)
    ELSE Float(SubSeq(f.bits, 1, Last(Ones(f.bits))), f.exp + Len(f.bits) - Last(Ones(f.bits)))

\* an exact value (sticky: something non-zero lies below its last bit) rounded
\* to Precision significant bits
RoundBits(bits, exp, sticky) ==
    IF Len(bits) <= Precision THEN Normal(Float(bits, exp))
    ELSE LET keep == SubSeq(bits, 1, Precision)
             rest == SubSeq(bits, Precision + 1, Len(bits))
             more == sticky \/ \E i \in 2..Len(rest) : rest[i] = 1
             up == rest[1] = 1 /\ (more \/ keep[Precision] = 1)
         IN  Normal(Float(IF up THEN AddBits(keep, <<1>>) ELSE keep, exp + Len(rest)))

\* x * y
FMul(x, y) == RoundBits(MulBits(x.bits, y.bits), x.exp + y.exp, FALSE)

\* x + y
FAdd(x, y) ==
    LET e == IF x.exp < y.exp THEN x.exp ELSE y.exp
    IN  RoundBits(AddBits(x.bits \o Zeros(x.exp - e), y.bits \o Zeros(y.exp - e)), e, FALSE)

\* the binary expansion of r/den continued until it ends or one bit more than
\* Precision is known
RECURSIVE Expand(_, _, _, _)
Expand(bits, exp, r, den) ==
    IF r = 0 \/ Len(TrimLeadingZeros(bits)) > Precision
    THEN [bits |-> TrimLeadingZeros(bits), exp |-> exp, rem |-> r]
    ELSE Expand(Append(bits, (2 * r) \div den), exp - 1, (2 * r) % den, den)

\* the float nearest to num/den: what a decimal literal such as 0.0925 denotes
FromRatio(num, den) ==
    LET x == Expand(BitsOfNat(num \div den), 0, num % den, den)
    IN  RoundBits(x.bits, x.exp, x.rem # 0)

\* the integer nearest to f, ties to even
RoundHalfEven(f) ==
    IF f.exp >= 0 THEN NatOfBits(f.bits \o Zeros(f.exp))
    ELSE LET k == -f.exp
             padded == Zeros(k + 1 - Len(f.bits)) \o f.bits
             n == Len(padded)
             whole == NatOfBits(SubSeq(padded, 1, n - k))
             frac == SubSeq(padded, n - k + 1, n)
             half == frac[1] = 1 /\ \A i \in 2..k : frac[i] = 0
             above == frac[1] = 1 /\ ~half
         IN  IF above \/ (half /\ whole % 2 = 1) THEN whole + 1 ELSE whole

\* f"{f:.2f}" as a number of cents: the exact value of f rounded to two decimals
FormatCents(f) == RoundHalfEven(Float(MulBits(f.bits, BitsOfNat(100)), f.exp))

\* manager.py 301-313: subtotal + subtotal * settings.tax_rate as printed; the
\* menu prices are multiples of 0.50, so the float subtotal is the exact one
FloatTotalCents(subtotal_cents) ==
    LET subtotal == FromRatio(subtotal_cents, 100)
        tax == FMul(subtotal, FromRatio(TAX_RATE_E4, 10000))
    IN  FormatCents(FAdd(subtotal, tax))

\* the totals of the subtotals of whole multiples of $2.00, computed once
TotalCentsOf == [n \in 0..30 |-> FloatTotalCents(200 * n)]

\* the total of the read-back, in cents
TotalCents(order) ==
    LET subtotal_cents == Subtotal(order)
    IN  IF subtotal_cents % 200 = 0 /\ subtotal_cents \div 200 \in DOMAIN TotalCentsOf
        THEN TotalCentsOf[subtotal_cents \div 200]
        ELSE FloatTotalCents(subtotal_cents)

Money(cents) ==
    IntToStr(cents \div 100) \o "." \o Digit((cents % 100) \div 10) \o Digit(cents % 10)

ItemPart(item) ==
    (IF item.quantity > 1 THEN IntToStr(item.quantity) \o " " ELSE "")
    \o item.item_name
    \o (IF Len(item.modifiers) > 0 THEN " with " \o Join(item.modifiers, ", ") ELSE "")

ItemParts(order) == [i \in 1..Len(order) |-> ItemPart(order[i])]

OrderSummaryTts(order) ==
    LET parts == ItemParts(order)
        n == Len(parts)
    IN  IF n = 1 THEN parts[1]
        ELSE IF n = 2 THEN parts[1] \o " and " \o parts[2]
        ELSE Join(SubSeq(parts, 1, n - 1), ", ") \o ", and " \o parts[n]

\* the order read-back of the REVIEW stage
ReadBack(order) ==
    IF Len(order) = 0 THEN MSG_READBACK_EMPTY
    ELSE "Perfect! Here's your order: " \o OrderSummaryTts(order) \o "."
         \o " Your total is $" \o Money(TotalCents(order)) \o "."
         \o " Does that look correct?"


(***************************************************************************)
(* AgentService.process_user_input                                         *)
(*                                                                         *)
(* llm is the outcome of the chat-completion call: kind "ok" with the      *)
(* parsed JSON (response, intent, action and, possibly, an "error" key),   *)
(* kind "json_error" when json.loads raises, kind "exception" when the     *)
(* call itself raises.  The result is the state after the call and the     *)
(* agent_response dict.                                                    *)
(***************************************************************************)
AgentResponse(response, intent, action, error) ==
    [response |-> response, intent |-> intent, action |-> action, error |-> error]

AgentResult(state, agent_response) == [state |-> state, agent_response |-> agent_response]

\* the transition taken from any stage
DoneOrderingStep_AnyStage(state, user_input_lower, r) ==
    IF AnyIn(done_ordering_indicators, user_input_lower)
    THEN IF ~has_items(state)
         THEN AgentResult(state,
                  [r EXCEPT !.response = MSG_NO_ITEMS_YET,
                            !.intent = "ordering",
                            !.action = NoneAction])
         ELSE AgentResult([state EXCEPT !.stage = REVIEW, !.order_read_back = FALSE],
                  [r EXCEPT !.response = "",
                            !.intent = "reviewing",
                            !.action = NoneAction])
    ELSE AgentResult(state, r)

\* agent.py 264-291: the server-side "done ordering" transition
DoneOrderingStep(state, user_input_lower, r) ==
    IF AnyIn(done_ordering_indicators, user_input_lower) /\ state.stage = ORDERING
    THEN IF ~has_items(state)
         THEN AgentResult(state,
                  [r EXCEPT !.response = MSG_NO_ITEMS_YET,
                            !.intent = "ordering",
                            !.action = NoneAction])
         ELSE AgentResult([state EXCEPT !.stage = REVIEW, !.order_read_back = FALSE],
                  [r EXCEPT !.response = "",
                            !.intent = "reviewing",
                            !.action = NoneAction])
    ELSE AgentResult(state, r)

\* the guard dropped
ReviewOrderEmpty_Dropped(state) == FALSE

\* agent.py 321-322: the empty-order guard of REVIEW
ReviewOrderEmpty(state) == ~has_items(state)

\* agent.py 296-343: the stage update on the intent and the utterance
StageUpdateStep(state, user_input_lower, r) ==
    LET intent == r.intent
        wants_revision == AnyIn(revision_indicators, user_input_lower)
        is_confirming == AnyIn(confirmation_indicators, user_input_lower)
    IN  CASE state.stage = GREETING ->
                AgentResult([state EXCEPT !.stage = ORDERING], r)
          [] state.stage = ORDERING ->
                IF \/ intent = "reviewing"
                   \/ Contains("that's all", user_input_lower)
                   \/ Contains("that's it", user_input_lower)
                THEN AgentResult([state EXCEPT !.stage = REVIEW, !.order_read_back = FALSE], r)
                ELSE AgentResult(state, r)
          [] state.stage = REVIEW ->
                IF ReviewOrderEmpty(state)
                THEN AgentResult([state EXCEPT !.stage = ORDERING],
                         [r EXCEPT !.response = MSG_NO_ITEMS, !.intent = "ordering"])
                ELSE IF intent = "concluding" \/ is_confirming
                THEN AgentResult([state EXCEPT !.stage = CONCLUSION],
                         [r EXCEPT !.intent = "completing", !.response = ""])
                ELSE IF intent = "revising" \/ wants_revision
                THEN AgentResult([state EXCEPT !.stage = REVISION],
                         [r EXCEPT !.intent = "revising"])
                ELSE AgentResult(state, r)
          [] state.stage = REVISION ->
                IF \/ intent = "reviewing"
                   \/ Contains("that's all", user_input_lower)
                   \/ Contains("done", user_input_lower)
                   \/ Contains("that's it", user_input_lower)
                THEN AgentResult([state EXCEPT !.stage = REVIEW, !.order_read_back = FALSE],
                         [r EXCEPT !.response = "", !.intent = "reviewing"])
                ELSE AgentResult(state, r)
          [] OTHER -> AgentResult(state, r)

process_user_input(state, user_input, llm) ==
    LET heard == add_transcript_turn(state, "Customer", user_input)
    IN  IF llm.kind = "json_error"
        THEN AgentResult(heard,
                 AgentResponse(MSG_JSON_FALLBACK, "asking_question", NoneAction, FALSE))
        ELSE IF llm.kind = "exception"
        THEN AgentResult(heard,
                 AgentResponse(MSG_LLM_FALLBACK, "asking_question", NoneAction, FALSE))
        ELSE LET user_input_lower == StripOf[LowerOf[user_input]]
                 llm_response == AgentResponse(llm.response, llm.intent, llm.action, llm.error)
                 done == DoneOrderingStep(heard, user_input_lower, llm_response)
                 said == add_transcript_turn(done.state, "Agent", done.agent_response.response)
             IN  StageUpdateStep(said, user_input_lower, done.agent_response)


(***************************************************************************)
(* CallSessionManager: the action handlers                                 *)
(***************************************************************************)
\* remove_item let through in ORDERING
stage_allowed_actions_RemoveInOrdering ==
    [greeting |-> {"none"},
     ordering |-> {"add_item", "remove_item", "none"},
     review |-> {"none"},
     revision |-> {"add_item", "remove_item", "modify_item", "none"},
     conclusion |-> {"none"}]

\* manager.py 358-369: the action types each stage lets through
stage_allowed_actions ==
    [greeting |-> {"none"},
     ordering |-> {"add_item", "none"},
     review |-> {"none"},
     revision |-> {"add_item", "remove_item", "modify_item", "none"},
     conclusion |-> {"none"}]

is_action_allowed_in_stage(action_type, stage) == action_type \in stage_allowed_actions[stage]

Handled(order, response_text) ==
    [order |-> order, response_text |-> response_text, raised |-> FALSE]

\* the handler raised: nothing of it is applied
Raised(order) == [order |-> order, response_text |-> "", raised |-> TRUE]

\* OrderParser.parse_agent_action: modifiers stripped, empty ones dropped, quantity at least 1
ParsedModifiers(modifiers) ==
    LET kept == SelectSeq(modifiers, LAMBDA m : m # "")
    IN  [i \in 1..Len(kept) |-> Strip(kept[i])]

\* a repeated name merged into the entry already there
handle_add_item_Merging(action, order, response_text) ==
    LET item_name == StripOf[action.item_name]
        same == {i \in 1..Len(order) : order[i].item_name = item_name}
    IN  IF item_name = "" \/ ~validate_item(item_name) THEN Handled(order, response_text)
        ELSE IF same # {}
        THEN Handled([i \in 1..Len(order) |->
                         IF i \in same
                         THEN [order[i] EXCEPT !.quantity = @ + action.quantity]
                         ELSE order[i]],
                     response_text)
        ELSE Handled(Append(order, OrderItem(item_name, action.quantity, <<>>)), response_text)

\* manager.py 374-427: _handle_add_item
handle_add_item(action, order, response_text) ==
    LET item_name == StripOf[action.item_name]
    IN  IF item_name = "" THEN Handled(order, response_text)
        ELSE IF validate_item(item_name)
        THEN Handled(Append(order,
                 OrderItem(item_name,
                           IF action.quantity > 1 THEN action.quantity ELSE 1,
                           ParsedModifiers(action.modifiers))),
                 response_text)
        ELSE Handled(order,
                 response_text \o " " \o "Item '" \o item_name \o "' is not on the menu")

\* deprecated: does nothing
handle_add_modifiers(action, order, response_text) == Handled(order, response_text)

\* the removal reported whether or not an entry matched
handle_remove_item_AlwaysRemoved(action, order, response_text) ==
    LET item_name == LowerOf[StripOf[action.item_name]]
        kept == SelectSeq(order, LAMBDA item : LowerOf[item.item_name] # item_name)
    IN  IF item_name = "" THEN Handled(order, response_text)
        ELSE Handled(kept,
                 "Removed " \o item_name \o " from your order. Anything else you'd like to change?")

\* only the first entry of that name removed
handle_remove_item_FirstMatch(action, order, response_text) ==
    LET item_name == LowerOf[StripOf[action.item_name]]
        matches == {i \in 1..Len(order) : LowerOf[order[i].item_name] = item_name}
    IN  IF item_name = "" THEN Handled(order, response_text)
        ELSE IF matches # {}
        THEN LET first == CHOOSE i \in matches : \A j \in matches : i <= j
             IN  Handled(SubSeq(order, 1, first - 1) \o SubSeq(order, first + 1, Len(order)),
                     "Removed " \o item_name \o " from your order. Anything else you'd like to change?")
        ELSE Handled(order,
                 "I don't see " \o item_name \o " in your order. What else would you like to change?")

\* manager.py 448-478: _handle_remove_item
handle_remove_item(action, order, response_text) ==
    LET item_name == LowerOf[StripOf[action.item_name]]
        kept == SelectSeq(order, LAMBDA item : LowerOf[item.item_name] # item_name)
    IN  IF item_name = "" THEN Handled(order, response_text)
        ELSE IF Len(kept) < Len(order)
        THEN Handled(kept,
                 "Removed " \o item_name \o " from your order. Anything else you'd like to change?")
        ELSE Handled(order,
                 "I don't see " \o item_name \o " in your order. What else would you like to change?")

\* action.get("modifiers", "").strip(): a list has no strip()
handle_modify_item(action, order, response_text) ==
    LET item_name == LowerOf[StripOf[action.item_name]]
        modifiers_text == IF Len(action.modifiers) = 0 THEN "" ELSE Strip(action.modifiers[1])
        matches == {i \in 1..Len(order) : LowerOf[order[i].item_name] = item_name}
    IN  IF ~action.modifiers_is_str /\ Len(action.modifiers) > 0 THEN Raised(order)
        ELSE IF item_name = "" THEN Handled(order, response_text)
        ELSE IF matches # {}
        THEN LET first == CHOOSE i \in matches : \A j \in matches : i <= j
             IN  Handled([order EXCEPT ![first].modifiers =
                              IF modifiers_text # "" THEN <<modifiers_text>> ELSE <<>>],
                     "Updated " \o item_name \o ". Anything else you'd like to change?")
        ELSE Handled(order,
                 "I don't see " \o item_name \o " in your order. What else would you like to change?")

handle_action(action, order, response_text) ==
    CASE action.type = "add_item" -> handle_add_item(action, order, response_text)
      [] action.type = "add_modifiers" -> handle_add_modifiers(action, order, response_text)
      [] action.type = "remove_item" -> handle_remove_item(action, order, response_text)
      [] action.type = "modify_item" -> handle_modify_item(action, order, response_text)
      [] OTHER -> Handled(order, response_text)

\* _persist_order: "skipped" (empty order, reports success), "saved", or "failed"
persist_order(order, storage_ok) ==
    IF Len(order) = 0 THEN "skipped"
    ELSE IF storage_ok THEN "saved" ELSE "failed"


(***************************************************************************)
(* CallSessionManager.process_user_speech on an existing session           *)
(*                                                                         *)
(* The result names the return statement taken ("path"), the state the     *)
(* session is left in, the reply text, the TwiML kind ("gather" or         *)
(* "hangup") and what _persist_order did ("not_called" when not invoked).  *)
(***************************************************************************)
TurnResult(path, state, reply, twiml, persist) ==
    [path |-> path, state |-> state, reply |-> reply, twiml |-> twiml, persist |-> persist]

\* the limit compared with > instead of >=
TurnLimitReached_OffByOne(turn_count) == turn_count > MAX_TURNS

\* manager.py 126-128: the turn limit
TurnLimitReached(turn_count) == turn_count >= MAX_TURNS

\* the threshold compared with > instead of >=
TooManyErrors_OffByOne(consecutive_errors) == consecutive_errors > MAX_CONSECUTIVE_ERRORS

\* manager.py 181-182: the consecutive-error threshold
TooManyErrors(consecutive_errors) == consecutive_errors >= MAX_CONSECUTIVE_ERRORS

\* manager.py 160-171: the has_error flag of the turn
HasError(agent_response) == agent_response.error \/ agent_response.response = ""

\* manager.py 243-247: the intents on which _persist_order is called
PersistsOn(intent) == intent = "confirming_order" \/ intent = "completing"

\* the farewell whatever _persist_order returned
ConclusionReply_AlwaysFarewell(persist) == MSG_FAREWELL

\* manager.py 248-266: the reply of a completing turn
ConclusionReply(persist) == IF persist # "failed" THEN MSG_FAREWELL ELSE MSG_CALL_BACK

\* a repeated read-back worded differently
ReviewReadBack_RepeatReworded(state, speech_result, response_text) ==
    LET is_asking_repeat ==
            state.stage = REVIEW /\ AnyIn(repeat_keywords, LowerOf[speech_result])
    IN  IF state.stage = REVIEW /\ (~state.order_read_back \/ is_asking_repeat)
        THEN [state |-> [state EXCEPT !.order_read_back = TRUE],
              response_text |->
                  IF state.order_read_back
                  THEN ReadBack(state.current_order) \o " As I said."
                  ELSE ReadBack(state.current_order)]
        ELSE [state |-> state, response_text |-> response_text]

\* manager.py 268-320: the server-side read-back in REVIEW
ReviewReadBack(state, speech_result, response_text) ==
    LET is_asking_repeat ==
            state.stage = REVIEW /\ AnyIn(repeat_keywords, LowerOf[speech_result])
    IN  IF state.stage = REVIEW /\ (~state.order_read_back \/ is_asking_repeat)
        THEN [state |-> [state EXCEPT !.order_read_back = TRUE],
              response_text |-> ReadBack(state.current_order)]
        ELSE [state |-> state, response_text |-> response_text]

\* manager.py 212-344: the turn after a response that is not treated as an error
CompleteTurn(state, speech_result, agent_response, storage_ok) ==
    LET action == IF is_action_allowed_in_stage(agent_response.action.type, state.stage)
                  THEN agent_response.action
                  ELSE NoneAction
        handled == handle_action(action, state.current_order, agent_response.response)
        acted == [state EXCEPT !.current_order = handled.order]
        intent == agent_response.intent
        persist == IF PersistsOn(intent)
                   THEN persist_order(acted.current_order, storage_ok)
                   ELSE "not_called"
        completing == PersistsOn(intent) /\ intent = "completing"
        concluded == IF completing THEN [acted EXCEPT !.stage = CONCLUSION] ELSE acted
        text == IF completing
                THEN ConclusionReply(persist)
                ELSE handled.response_text
        read == ReviewReadBack(concluded, speech_result, text)
    IN  IF handled.raised
        THEN \* the exception reaches handle_gather (voice.py 127-143)
             TurnResult("exception", state, MSG_WEBHOOK_ERROR, "gather", "not_called")
        ELSE TurnResult("completed", read.state, read.response_text,
                        IF read.state.stage = CONCLUSION THEN "hangup" ELSE "gather",
                        persist)

\* an accepted utterance counted twice
AcceptUtterance_CountsTwice(state) == [state EXCEPT !.turn_count = @ + 2]

\* manager.py 122-123: the utterance is accepted
AcceptUtterance(state) == [state EXCEPT !.turn_count = @ + 1]

\* manager.py 126-344: the turn limit, the extraction call and what follows it
ResumeTurn(counted, speech_result, llm, storage_ok) ==
    IF TurnLimitReached(counted.turn_count)
    THEN TurnResult("turn_limit", [counted EXCEPT !.stage = CONCLUSION],
                    MSG_TURN_LIMIT, "gather", "not_called")
    ELSE LET agent == process_user_input(counted, speech_result, llm)
             agent_response == agent.agent_response
             has_error == HasError(agent_response)
             response_text == IF agent_response.response = ""
                              THEN MSG_EMPTY_RESPONSE
                              ELSE agent_response.response
             errors == agent.state.consecutive_errors + 1
         IN  IF has_error
             THEN IF TooManyErrors(errors)
                  THEN TurnResult("error_transfer",
                           [agent.state EXCEPT !.consecutive_errors = errors,
                                               !.stage = CONCLUSION],
                           MSG_ERROR_TRANSFER, "gather", "not_called")
                  ELSE TurnResult("error",
                           [agent.state EXCEPT !.consecutive_errors = errors],
                           response_text, "gather", "not_called")
             ELSE CompleteTurn([agent.state EXCEPT !.consecutive_errors = 0],
                               speech_result, agent_response, storage_ok)

\* a rejected utterance counted as a turn
process_user_speech_CountsRejected(state, speech_result, llm, storage_ok) ==
    IF StripOf[speech_result] = ""
    THEN TurnResult("rejected", AcceptUtterance(state), MSG_DIDNT_CATCH, "gather", "not_called")
    ELSE IF Len(StripOf[speech_result]) < MIN_SPEECH_LEN
    THEN TurnResult("rejected", AcceptUtterance(state), MSG_DIDNT_GET, "gather", "not_called")
    ELSE ResumeTurn(AcceptUtterance(state), speech_result, llm, storage_ok)

\* manager.py 82-344: process_user_speech on the session of the call
process_user_speech(state, speech_result, llm, storage_ok) ==
    IF StripOf[speech_result] = ""
    THEN TurnResult("rejected", state, MSG_DIDNT_CATCH, "gather", "not_called")
    ELSE IF Len(StripOf[speech_result]) < MIN_SPEECH_LEN
    THEN TurnResult("rejected", state, MSG_DIDNT_GET, "gather", "not_called")
    ELSE ResumeTurn(AcceptUtterance(state), speech_result, llm, storage_ok)

\* whether the turn reaches the extraction call / the storage call
ConsultsExtraction(state, speech_result) ==
    /\ Len(StripOf[speech_result]) >= MIN_SPEECH_LEN
    /\ ~TurnLimitReached(state.turn_count + 1)

(***************************************************************************)
(* Inputs explored                                                         *)
(***************************************************************************)
Intents == {"ordering", "reviewing", "revising", "concluding", "confirming_order", "completing"}

Actions ==
    {NoneAction,
     Action("add_item", "burger", 1, <<>>, FALSE),
     Action("add_item", "pizza", 1, <<>>, FALSE),
     Action("add_notes", "burger", 1, <<"no onions">>, TRUE),
     Action("remove_item", "burger", 1, <<>>, FALSE),
     Action("modify_item", "burger", 1, <<"no onions">>, TRUE)}

LLM(kind, response, intent, action, error) ==
    [kind |-> kind, response |-> response, intent |-> intent, action |-> action, error |-> error]

NoLLM == LLM("not_called", "", "", NoneAction, FALSE)

\* extraction outcomes: a failed call, an empty response, an "error" key, every
\* intent without an action, an item and a note added under the ordering intent
LLMResults ==
    {LLM("json_error", "", "", NoneAction, FALSE),
     LLM("exception", "", "", NoneAction, FALSE),
     LLM("ok", "", "ordering", NoneAction, FALSE),
     LLM("ok", LLM_TEXT, "ordering", NoneAction, TRUE)}
    \cup {LLM("ok", LLM_TEXT, i, NoneAction, FALSE) : i \in Intents}
    \cup {LLM("ok", LLM_TEXT, "ordering", Action("add_item", "burger", 1, <<>>, FALSE), FALSE),
          LLM("ok", LLM_TEXT, "ordering",
              Action("add_notes", "burger", 1, <<"no onions">>, TRUE), FALSE)}

Input(event, speech, llm, storage_ok) ==
    [event |-> event, speech |-> speech, llm |-> llm, storage_ok |-> storage_ok,
     status |-> "", fails_at |-> "none"]

\* POST /voice/status: the CallStatus form field, and the database call of
\* end_session that raises ("none": none does)
StatusInput(status, fails_at) ==
    [Input("status", "", NoLLM, TRUE) EXCEPT !.status = status, !.fails_at = fails_at]

Output(path, reply, twiml, persist) ==
    [path |-> path, reply |-> reply, twiml |-> twiml, persist |-> persist]

(***************************************************************************)
(* One call, its webhooks handled one at a time                            *)
(***************************************************************************)
HasSession == CallSid \in DOMAIN sessions

\* the session the handler works on: get_session, else create_session
SessionOrNew == IF HasSession THEN sessions[CallSid] ELSE initialize_state

ConcInit ==
    /\ objs = <<>>
    /\ store = 0
    /\ task = [h \in 1..MaxHandlers |-> [pc |-> "idle", kind |-> "none", session |-> 0]]

\* no Call record, no Order rows
EmptyDb == [call |-> "none", orders |-> <<>>, transcript |-> ""]

Init ==
    /\ sessions = <<>>
    /\ db = EmptyDb
    /\ inp = Input("none", "", NoLLM, TRUE)
    /\ out = Output("none", "", "none", "not_called")
    /\ failRun = 0
    /\ readRun = 0
    /\ ConcInit

\* CallPersistenceService.create_call: the record of the call, created
\* "in_progress" when there is none
create_call(database) ==
    IF database.call = "none" THEN [database EXCEPT !.call = "in_progress"] ELSE database

OrderRow(status, structured_order, items) ==
    [status |-> status, structured_order |-> structured_order, items |-> items]

\* the Order rows after _persist_order (manager.py 528-563): create_order
\* commits a pending row, add_order_items commits its items, confirm_order
\* commits the status; a failure leaves what was committed before the call
\* that raised
RowsAfterPersist(rows, order, persist) ==
    CASE persist = "saved" ->
             {Append(rows, OrderRow("confirmed", order, Len(order)))}
      [] persist = "failed" ->
             {rows,
              Append(rows, OrderRow("pending", order, 0)),
              Append(rows, OrderRow("pending", order, Len(order)))}
      [] OTHER -> {rows}

\* AgentService.get_greeting
get_greeting(state) == add_transcript_turn(state, "Agent", MSG_GREETING)

\* POST /voice/incoming: get_greeting
IncomingCall ==
    /\ ~HasSession
    /\ sessions' = (CallSid :> get_greeting(initialize_state))
    /\ inp' = Input("incoming", "", NoLLM, TRUE)
    /\ out' = Output("greeting", MSG_GREETING, "gather", "not_called")
    /\ db' = create_call(db)
    /\ readRun' = 0
    /\ UNCHANGED <<failRun, objs, store, task>>

\* what the extraction service itself delivered: the call raised, the text was
\* not JSON, or the result was empty or flagged as an error
ExtractionFailed(llm) ==
    \/ llm.kind \in {"json_error", "exception"}
    \/ llm.error
    \/ llm.response = ""

NextFailRun(path, llm) ==
    CASE path \in {"rejected", "turn_limit"} -> failRun
      [] ExtractionFailed(llm) ->
             IF failRun < MAX_CONSECUTIVE_ERRORS THEN failRun + 1 ELSE failRun
      [] OTHER -> 0

\* the reply is the read-back of the REVIEW stage (manager.py 285, 314)
IsReadBack(reply) ==
    LET opening == "Perfect! Here's your order: "
    IN  Len(reply) >= Len(opening) /\ SubSeq(reply, 1, Len(opening)) = opening

NextReadRun(reply) ==
    IF IsReadBack(reply) THEN (IF readRun < 2 THEN readRun + 1 ELSE readRun) ELSE 0

\* POST /voice/gather: process_user_speech
Turn(speech, llm, storage_ok) ==
    /\ ConsultsExtraction(SessionOrNew, speech) <=> llm # NoLLM
    /\ \E res \in {process_user_speech(SessionOrNew, speech, llm, storage_ok)} :
          /\ ~storage_ok => res.persist = "failed"
          /\ sessions' = (CallSid :> res.state)
          /\ inp' = Input("gather", speech, llm, storage_ok)
          /\ out' = Output(res.path, res.reply, res.twiml, res.persist)
          /\ failRun' = NextFailRun(res.path, llm)
          /\ readRun' = NextReadRun(res.reply)
          /\ \E rows \in RowsAfterPersist(db.orders, res.state.current_order, res.persist) :
                 /\ db' = [(IF HasSession THEN db ELSE create_call(db)) EXCEPT !.orders = rows]
          /\ UNCHANGED <<objs, store, task>>

\* a turn of a call explored up to TurnCap accepted utterances
Gather(speech, llm, storage_ok) ==
    /\ SessionOrNew.turn_count < TurnCap
    /\ llm.action.type = "add_item" => Len(SessionOrNew.current_order) < MaxItems
    /\ Turn(speech, llm, storage_ok)
    /\ Len(db'.orders) <= MaxOrders

Next ==
    \/ IncomingCall
    \/ \E speech \in Utterances, llm \in LLMResults \cup {NoLLM} :
           Gather(speech, llm, TRUE)

Spec == Init /\ [][Next]_vars

TypeOK ==
    /\ \A c \in DOMAIN sessions : sessions[c].stage \in ConversationStage
    /\ failRun \in 0..MAX_CONSECUTIVE_ERRORS


(***************************************************************************)
(* Short calls: fewer turns, longer orders, more utterances                *)
(***************************************************************************)
ShortLLMResults ==
    LLMResults
    \cup {LLM("ok", LLM_TEXT, "ordering", a, FALSE) : a \in Actions}
    \cup {LLM("ok", LLM_TEXT, "revising", Action("remove_item", "burger", 1, <<>>, FALSE), FALSE),
          LLM("ok", LLM_TEXT, "ordering", Action("add_item", "fries", 4, <<>>, FALSE), FALSE),
          LLM("ok", LLM_TEXT, "revising",
              Action("modify_item", "burger", 1, <<"no onions">>, FALSE), FALSE)}

TelephonyFailures == {"failed", "busy", "no-answer"}

\* the statuses on which handle_call_status ends the session
EndStatuses == {"completed"} \cup TelephonyFailures

\* the status written whatever the telephony status says
final_status_AsReported(order_count, has_orders_in_session, status) ==
    IF status \in TelephonyFailures THEN "failed" ELSE "completed"

\* manager.py 594-604: the status end_session writes to the Call record
final_status(order_count, has_orders_in_session, status) ==
    IF order_count = 0 /\ ~has_orders_in_session THEN "failed"
    ELSE IF status \in TelephonyFailures THEN "failed"
    ELSE "completed"

\* the database calls of end_session, in the order it makes them
EndCalls == <<"get_call_by_sid", "count_orders", "update_call_status", "update_call_transcript">>

EndResult(path, sess, database) == [path |-> path, sessions |-> sess, db |-> database]

\* manager.py 565-621: end_session; fails_at names the database call that
\* raises, and what was committed before it stays
end_session(sess, database, status, fails_at) ==
    LET session == CallSid \in DOMAIN sess
        has_orders_in_session == session /\ Len(sess[CallSid].current_order) > 0
        db_status == final_status(Len(database.orders), has_orders_in_session, status)
        transcript == IF session THEN Join(sess[CallSid].transcript, "\n") ELSE ""
        updated == [database EXCEPT !.call = db_status]
    IN  IF fails_at = "get_call_by_sid" THEN EndResult("raised", sess, database)
        ELSE IF database.call = "none" THEN EndResult("no_call", sess, database)
        ELSE IF fails_at = "count_orders" THEN EndResult("raised", sess, database)
        ELSE IF fails_at = "update_call_status" THEN EndResult("raised", sess, database)
        ELSE IF transcript # "" /\ fails_at = "update_call_transcript"
        THEN EndResult("raised", sess, updated)
        ELSE EndResult("ended",
                 [c \in DOMAIN sess \ {CallSid} |-> sess[c]],
                 IF transcript # "" THEN [updated EXCEPT !.transcript = transcript]
                                    ELSE updated)

\* whether end_session gets as far as the database call that is to raise
ReachesEndCall(sess, database, fails_at) ==
    CASE fails_at \in {"none", "get_call_by_sid"} -> TRUE
      [] fails_at \in {"count_orders", "update_call_status"} -> database.call # "none"
      [] OTHER -> /\ database.call # "none"
                  /\ CallSid \in DOMAIN sess
                  /\ sess[CallSid].transcript # <<>>

\* the call is over: its final status callback has been handled
Ended == inp.event = "status"

\* POST /voice/status with a final CallStatus: handle_call_status (voice.py
\* 146-191) answers OK whether end_session returns or raises
CallStatus(status, fails_at) ==
    /\ ~Ended
    /\ ReachesEndCall(sessions, db, fails_at)
    /\ \E res \in {end_session(sessions, db, status, fails_at)} :
          /\ sessions' = res.sessions
          /\ db' = res.db
          /\ inp' = StatusInput(status, fails_at)
          /\ out' = Output(res.path, "OK", "none", "not_called")
    /\ UNCHANGED <<failRun, readRun, objs, store, task>>

\* the first webhook of a call that has not ended
ShortIncoming ==
    /\ ~Ended
    /\ IncomingCall

ShortGather(speech, llm, storage_ok) ==
    /\ ~Ended
    /\ SessionOrNew.turn_count < ShortTurns
    /\ llm.action.type = "add_item" => Len(SessionOrNew.current_order) < ShortItems
    /\ Turn(speech, llm, storage_ok)
    /\ Len(db'.orders) <= ShortOrders

NextShort ==
    \/ ShortIncoming
    \/ \E status \in EndStatuses,
          fails_at \in {"none"} \cup {EndCalls[i] : i \in 1..Len(EndCalls)} :
           CallStatus(status, fails_at)
    \/ \E speech \in AllUtterances, llm \in ShortLLMResults \cup {NoLLM}, storage_ok \in BOOLEAN :
           ShortGather(speech, llm, storage_ok)

SpecShort == Init /\ [][NextShort]_vars


(***************************************************************************)
(* First webhooks of one new call handled concurrently                     *)
(*                                                                         *)
(* The handlers are coroutines of one event loop: a step runs from one     *)
(* suspension point to the next.  get_session does not suspend;            *)
(* create_session suspends in call_persistence.create_call before it       *)
(* stores the session; a turn suspends in the extraction call.             *)
(***************************************************************************)
Handlers == 1..MaxHandlers

ConcUtterance == "burger"

ConcLLMResults ==
    {LLM("ok", LLM_TEXT, "ordering", Action("add_item", "burger", 1, <<>>, FALSE), FALSE),
     LLM("ok", "", "ordering", NoneAction, FALSE),
     LLM("json_error", "", "", NoneAction, FALSE)}

\* what the handler does with its session up to its next suspension point
Proceed(h, kind, ref, objects) ==
    IF kind = "gather"
    THEN /\ objs' = [objects EXCEPT ![ref] = AcceptUtterance(@)]
         /\ task' = [task EXCEPT ![h] = [pc |-> "extracting", kind |-> kind, session |-> ref]]
    ELSE /\ objs' = objects
         /\ task' = [task EXCEPT ![h] = [pc |-> "done", kind |-> kind, session |-> ref]]

\* the webhook arrives: get_session (manager.py 69-71, 75-77, 95-97)
HandlerStart(h, kind) ==
    /\ task[h].pc = "idle"
    /\ IF store # 0
       THEN /\ Proceed(h, kind, store, objs)
            /\ UNCHANGED store
       ELSE /\ task' = [task EXCEPT ![h] = [pc |-> "creating", kind |-> kind, session |-> 0]]
            /\ UNCHANGED <<objs, store>>
    /\ UNCHANGED <<sessions, inp, out, db, failRun, readRun>>

\* create_session resumes after its awaits and stores a new session (manager.py 54-67)
CreateSession(h) ==
    /\ task[h].pc = "creating"
    /\ store' = Len(objs) + 1
    /\ Proceed(h, task[h].kind, Len(objs) + 1, Append(objs, initialize_state))
    /\ UNCHANGED <<sessions, inp, out, db, failRun, readRun>>

\* the extraction call returns and the turn runs to its end on the handler's session
FinishTurn(h, llm) ==
    /\ task[h].pc = "extracting"
    /\ LET ref == task[h].session
           res == ResumeTurn(objs[ref], ConcUtterance, llm, TRUE)
       IN  /\ objs' = [objs EXCEPT ![ref] = res.state]
           /\ task' = [task EXCEPT ![h].pc = "done"]
    /\ UNCHANGED <<store, sessions, inp, out, db, failRun, readRun>>

NextConc ==
    \E h \in Handlers :
        \/ \E kind \in {"incoming", "gather"} : HandlerStart(h, kind)
        \/ CreateSession(h)
        \/ \E llm \in ConcLLMResults : FinishTurn(h, llm)

SpecConc == Init /\ [][NextConc]_vars


(***************************************************************************)
(* Several calls, their webhooks handled concurrently                      *)
(*                                                                         *)
(* Each webhook is a coroutine that runs from one suspension point to the  *)
(* next: create_call suspends in its SELECT and in its INSERT,             *)
(* create_session in the awaits before it stores the session, a turn in    *)
(* the extraction call, end_session in its database calls.  Here store     *)
(* maps every call to the index of its session in objs (0 = absent), db is *)
(* the calls table and task holds, per webhook, its position, its kind,    *)
(* its call and its local session reference.  A row of the calls table     *)
(* carries the number of Order rows that refer to it.                      *)
(***************************************************************************)
Calls == {"CA1", "CA2"}

MaxWebhooks == 3     \* webhooks handled, over all calls

Webhooks == 1..MaxWebhooks

\* the CallStatus of the status callbacks explored
CallsEndStatus == "completed"

CallRow(call_sid, status) ==
    [call_sid |-> call_sid, status |-> status, transcript |-> "", orders |-> 0]

\* the extraction results explored: an item added, an item added and the
\* order confirmed on the same turn, a reply that is not JSON
CallsLLMResults ==
    {LLM("ok", LLM_TEXT, "ordering", Action("add_item", "burger", 1, <<>>, FALSE), FALSE),
     LLM("ok", LLM_TEXT, "confirming_order",
         Action("add_item", "burger", 1, <<>>, FALSE), FALSE),
     LLM("json_error", "", "", NoneAction, FALSE)}

\* SELECT ... WHERE call_sid = :call_sid
RowsOf(rows, call_sid) == {i \in 1..Len(rows) : rows[i].call_sid = call_sid}

\* the INSERT without the unique index
insert_call_NoUniqueIndex(rows, call_sid) ==
    [raised |-> FALSE, rows |-> Append(rows, CallRow(call_sid, "in_progress"))]

\* calls.py 25-27 under the unique index on call_sid (db/models.py 17): the
\* INSERT of create_call raises IntegrityError when the call has a row
insert_call(rows, call_sid) ==
    IF RowsOf(rows, call_sid) # {}
    THEN [raised |-> TRUE, rows |-> rows]
    ELSE [raised |-> FALSE, rows |-> Append(rows, CallRow(call_sid, "in_progress"))]

\* every session dropped
remove_session_All(sessions_by_call, call_sid) == [c \in Calls |-> 0]

\* manager.py 619-621: del _sessions[call_sid]
remove_session(sessions_by_call, call_sid) == [sessions_by_call EXCEPT ![call_sid] = 0]

WebhookTask(pc, kind, call_sid, ref) ==
    [pc |-> pc, kind |-> kind, call |-> call_sid, session |-> ref]

InitCalls ==
    /\ sessions = <<>>
    /\ inp = Input("none", "", NoLLM, TRUE)
    /\ out = Output("none", "", "none", "not_called")
    /\ failRun = 0
    /\ readRun = 0
    /\ db = <<>>
    /\ objs = <<>>
    /\ store = [c \in Calls |-> 0]
    /\ task = [h \in Webhooks |-> WebhookTask("idle", "none", "", 0)]

\* what the webhook does with its session up to its next suspension point:
\* a turn counts the utterance and suspends in extraction, the first webhook
\* of a call speaks the greeting
WebhookProceed(h, kind, call_sid, ref, objects) ==
    IF kind = "gather"
    THEN /\ objs' = [objects EXCEPT ![ref] = AcceptUtterance(@)]
         /\ task' = [task EXCEPT ![h] = WebhookTask("extracting", kind, call_sid, ref)]
    ELSE /\ objs' = [objects EXCEPT ![ref] = get_greeting(@)]
         /\ task' = [task EXCEPT ![h] = WebhookTask("done", kind, call_sid, ref)]

\* the webhook arrives and looks its session up, which does not suspend
\* (manager.py 69-71): a status callback goes on to end_session's first
\* database call (576-579), the others work on the session found or start
\* create_session (75-77, 95-97)
WebhookStart(h, call_sid, kind) ==
    /\ task[h].pc = "idle"
    /\ IF kind = "status"
       THEN /\ task' = [task EXCEPT ![h] = WebhookTask("ending", kind, call_sid, store[call_sid])]
            /\ UNCHANGED objs
       ELSE IF store[call_sid] # 0
       THEN WebhookProceed(h, kind, call_sid, store[call_sid], objs)
       ELSE /\ task' = [task EXCEPT ![h] = WebhookTask("selecting", kind, call_sid, 0)]
            /\ UNCHANGED objs
    /\ UNCHANGED <<sessions, inp, out, db, failRun, readRun, store>>

\* create_call: get_call_by_sid returns (calls.py 20-22)
CallSelected(h) ==
    /\ task[h].pc = "selecting"
    /\ task' = [task EXCEPT ![h].pc =
                   IF RowsOf(db, task[h].call) # {} THEN "storing" ELSE "inserting"]
    /\ UNCHANGED <<sessions, inp, out, db, failRun, readRun, objs, store>>

\* create_call: add and commit (calls.py 25-28); an IntegrityError ends the webhook
CallInserted(h) ==
    /\ task[h].pc = "inserting"
    /\ \E res \in {insert_call(db, task[h].call)} :
          /\ db' = res.rows
          /\ task' = [task EXCEPT ![h].pc = IF res.raised THEN "failed" ELSE "storing"]
    /\ UNCHANGED <<sessions, inp, out, failRun, readRun, objs, store>>

\* create_session stores a new session (manager.py 52-67) and the webhook goes on
SessionStored(h) ==
    /\ task[h].pc = "storing"
    /\ store' = [store EXCEPT ![task[h].call] = Len(objs) + 1]
    /\ WebhookProceed(h, task[h].kind, task[h].call, Len(objs) + 1,
                      Append(objs, initialize_state))
    /\ UNCHANGED <<sessions, inp, out, db, failRun, readRun>>

\* the extraction call returns and the turn runs to its end; an order that
\* _persist_order writes refers to the Call row of the session (manager.py 541)
TurnFinished(h, llm) ==
    /\ task[h].pc = "extracting"
    /\ \E res \in {ResumeTurn(objs[task[h].session], ConcUtterance, llm, TRUE)} :
          /\ objs' = [objs EXCEPT ![task[h].session] = res.state]
          /\ db' = [i \in 1..Len(db) |->
                       IF res.persist = "saved" /\ i \in RowsOf(db, task[h].call)
                       THEN [db[i] EXCEPT !.orders = @ + 1]
                       ELSE db[i]]
    /\ task' = [task EXCEPT ![h].pc = "done"]
    /\ UNCHANGED <<sessions, inp, out, failRun, readRun, store>>

\* end_session from its first database call on (manager.py 579-621)
SessionEnded(h) ==
    /\ task[h].pc = "ending"
    /\ LET call_sid == task[h].call
           ref == task[h].session
           rows == RowsOf(db, call_sid)
           has_orders_in_session == ref # 0 /\ has_items(objs[ref])
           order_count == IF rows = {} THEN 0 ELSE db[CHOOSE i \in rows : TRUE].orders
           db_status == final_status(order_count, has_orders_in_session, CallsEndStatus)
           transcript == IF ref # 0 THEN Join(objs[ref].transcript, "\n") ELSE ""
       IN  IF rows = {}
           THEN UNCHANGED <<db, store>>
           ELSE /\ db' = [i \in 1..Len(db) |->
                             IF i \in rows
                             THEN [db[i] EXCEPT !.status = db_status,
                                                !.transcript =
                                                    IF transcript # "" THEN transcript ELSE @]
                             ELSE db[i]]
                /\ store' = remove_session(store, call_sid)
    /\ task' = [task EXCEPT ![h].pc = "done"]
    /\ UNCHANGED <<sessions, inp, out, failRun, readRun, objs>>

NextCalls ==
    \E h \in Webhooks :
        \/ \E call_sid \in Calls, kind \in {"incoming", "gather", "status"} :
               WebhookStart(h, call_sid, kind)
        \/ CallSelected(h)
        \/ CallInserted(h)
        \/ SessionStored(h)
        \/ \E llm \in CallsLLMResults : TurnFinished(h, llm)
        \/ SessionEnded(h)

SpecCalls == InitCalls /\ [][NextCalls]_vars


(***************************************************************************)
(* Properties.  A step of Spec is one webhook: Before is the session the   *)
(* handler works on, After the session it leaves, inp' and out' its input  *)
(* and its result.                                                         *)
(***************************************************************************)
Before == SessionOrNew
After == sessions'[CallSid]
GatherStep == inp'.event = "gather"
Accepted == GatherStep /\ out'.path # "rejected"
GovernorForced == out'.path \in {"turn_limit", "error_transfer"}
Session == sessions[CallSid]

BurgerPlain == OrderItem("burger", 1, <<>>)
BurgerNoOnions == OrderItem("burger", 1, <<"no onions">>)

LegalEdges ==
    {<<GREETING, ORDERING>>, <<ORDERING, REVIEW>>, <<REVIEW, REVISION>>,
     <<REVIEW, CONCLUSION>>, <<REVIEW, ORDERING>>, <<REVISION, REVIEW>>}

\* C1: every change of stage made by a turn follows an edge of the stage
\* machine (Review -> Ordering only with an empty order) or is a governor's
\* forced move to Conclusion.
C1_StageEdgesStep ==
    Before.stage # After.stage =>
        \/ /\ <<Before.stage, After.stage>> \in LegalEdges
           /\ (After.stage = ORDERING /\ Before.stage = REVIEW) => ~has_items(Before)
        \/ After.stage = CONCLUSION /\ GovernorForced

C1_StageEdges == [][C1_StageEdgesStep]_vars

\* C2: in Ordering with an empty order, a turn whose utterance holds a
\* done-ordering phrase, or whose extracted intent is "reviewing", leaves the
\* stage at Ordering (a governor's forced Conclusion aside) and never at Review.
C2_EmptyOrderStaysOrderingStep ==
    ( /\ Accepted
      /\ Before.stage = ORDERING
      /\ ~has_items(Before)
      /\ \/ AnyIn(done_ordering_indicators, StripOf[LowerOf[inp'.speech]])
         \/ inp'.llm.kind = "ok" /\ inp'.llm.intent = "reviewing" )
    => (After.stage = ORDERING \/ (After.stage = CONCLUSION /\ GovernorForced))

C2_EmptyOrderStaysOrdering == [][C2_EmptyOrderStaysOrderingStep]_vars


ConfirmsOrConcludes ==
    \/ AnyIn(confirmation_indicators, StripOf[LowerOf[inp'.speech]])
    \/ inp'.llm.kind = "ok" /\ inp'.llm.intent = "concluding"

\* C3 as stated: in Review with an empty order, a turn with a confirmation
\* utterance or with extracted intent "concluding" does not end in Conclusion
\* and ends in Ordering.
C3_Original_EmptyReviewToOrderingStep ==
    (Accepted /\ Before.stage = REVIEW /\ ~has_items(Before) /\ ConfirmsOrConcludes)
    => After.stage = ORDERING

C3_Original_EmptyReviewToOrdering == [][C3_Original_EmptyReviewToOrderingStep]_vars

\* C3 amended: in Review with an empty order, such a turn ends in Conclusion
\* only when a governor forces it; when extraction succeeded and no governor
\* intervened it ends in Ordering, and when extraction failed the stage is
\* still Review.
C3_EmptyReviewNeverConfirmsStep ==
    (Accepted /\ Before.stage = REVIEW /\ ~has_items(Before) /\ ConfirmsOrConcludes)
    => /\ After.stage = CONCLUSION => GovernorForced
       /\ (inp'.llm.kind = "ok" /\ ~GovernorForced) => After.stage = ORDERING
       /\ inp'.llm.kind \in {"json_error", "exception"} => After.stage = REVIEW

C3_EmptyReviewNeverConfirms == [][C3_EmptyReviewNeverConfirmsStep]_vars

\* C3 witness: "yes" was answered with the empty-order prompt of REVIEW and the
\* session is back in Ordering
C3_Witness ==
    /\ HasSession
    /\ inp.speech = "yes"
    /\ out.reply = MSG_NO_ITEMS
    /\ Session.stage = ORDERING
    /\ ~has_items(Session)

\* C4: a turn tries to write the order to storage exactly when it takes the
\* stage from Review to Conclusion by confirmation.
C4_PersistOnlyOnConfirmStep ==
    GatherStep =>
        (out'.persist \in {"saved", "failed"}
            <=> (Before.stage = REVIEW /\ After.stage = CONCLUSION /\ ~GovernorForced))

C4_PersistOnlyOnConfirm == [][C4_PersistOnlyOnConfirmStep]_vars

\* C5: a turn that takes the stage from Ordering to Review with a non-empty
\* order replies with the read-back computed from the order.
C5_ReviewEntryReadsBackStep ==
    (Accepted /\ Before.stage = ORDERING /\ After.stage = REVIEW /\ has_items(After))
    => out'.reply = ReadBack(After.current_order)

C5_ReviewEntryReadsBack == [][C5_ReviewEntryReadsBackStep]_vars

\* C6: the scenario "burger", "no onions", "that's all", "yes" from a fresh
\* session, as one obligation per turn on the state the previous turn promises.
C6_Turn1 ==
    ( /\ Accepted
      /\ Before = initialize_state
      /\ inp'.speech = "burger"
      /\ inp'.llm = LLM("ok", LLM_TEXT, "ordering",
                        Action("add_item", "burger", 1, <<>>, FALSE), FALSE) )
    => /\ After.current_order = <<BurgerPlain>>
       /\ After.pending_modifiers_item_index # NoIndex

C6_Turn2 ==
    ( /\ Accepted
      /\ Before.stage = ORDERING
      /\ Before.current_order = <<BurgerPlain>>
      /\ Before.turn_count = 1
      /\ inp'.speech = "no onions"
      /\ inp'.llm = LLM("ok", LLM_TEXT, "ordering",
                        Action("add_notes", "burger", 1, <<"no onions">>, TRUE), FALSE) )
    => /\ After.current_order = <<BurgerNoOnions>>
       /\ After.pending_modifiers_item_index = NoIndex

C6_Turn3 ==
    ( /\ Accepted
      /\ Before.stage = ORDERING
      /\ Before.current_order = <<BurgerNoOnions>>
      /\ Before.turn_count = 2
      /\ inp'.speech = "that's all"
      /\ inp'.llm.kind = "ok" )
    => /\ After.stage = REVIEW
       /\ out'.reply = ReadBack(<<BurgerNoOnions>>)

C6_Turn4 ==
    ( /\ Accepted
      /\ Before.stage = REVIEW
      /\ Before.current_order = <<BurgerNoOnions>>
      /\ Before.turn_count = 3
      /\ inp'.speech = "yes"
      /\ inp'.llm.kind = "ok" )
    => /\ After.stage = CONCLUSION
       /\ out'.reply = MSG_FAREWELL

C6_Scenario == [][C6_Turn1 /\ C6_Turn2 /\ C6_Turn3 /\ C6_Turn4]_vars

\* C7: concurrent first webhooks of one new call construct one session, every
\* handler works on the stored one, and a stored session that has been mutated
\* is not replaced.
C7_OneSessionPerCall ==
    /\ Len(objs) <= 1
    /\ \A h \in Handlers : task[h].session # 0 => task[h].session = store

\* C8: turn_count counts the accepted utterances; up to the 19th the turn
\* governor does nothing, on the 20th it forces Conclusion with the transfer
\* offer, without extraction and without touching anything else of the session.
C8_TurnGovernorStep ==
    GatherStep =>
        /\ After.turn_count = Before.turn_count + (IF out'.path = "rejected" THEN 0 ELSE 1)
        /\ (Accepted /\ After.turn_count < MAX_TURNS) =>
               (out'.path # "turn_limit" /\ out'.reply # MSG_TURN_LIMIT)
        /\ (Accepted /\ After.turn_count = MAX_TURNS) =>
               /\ out'.path = "turn_limit"
               /\ out'.reply = MSG_TURN_LIMIT
               /\ inp'.llm = NoLLM
               /\ After = [Before EXCEPT !.turn_count = MAX_TURNS, !.stage = CONCLUSION]

C8_TurnGovernor == [][C8_TurnGovernorStep]_vars

\* C8 witness: the 20th accepted utterance was answered with the transfer offer
C8_Witness ==
    /\ HasSession
    /\ Session.turn_count = MAX_TURNS
    /\ Session.stage = CONCLUSION
    /\ out.reply = MSG_TURN_LIMIT

\* C9: on a turn that consulted extraction, the failure governor forces
\* Conclusion with its transfer offer exactly when the turn completes a run of
\* three turns on which extraction failed, and a turn on which extraction did
\* not fail leaves consecutive_errors at 0.
C9_FailureGovernorStep ==
    (GatherStep /\ inp'.llm # NoLLM) =>
        /\ out'.path = "error_transfer" <=> failRun' = MAX_CONSECUTIVE_ERRORS
        /\ out'.path = "error_transfer" =>
               (After.stage = CONCLUSION /\ out'.reply = MSG_ERROR_TRANSFER)
        /\ ~ExtractionFailed(inp'.llm) => After.consecutive_errors = 0

C9_FailureGovernor == [][C9_FailureGovernorStep]_vars

\* C10: a turn on which the extraction call raises or returns invalid JSON
\* increments consecutive_errors and replies with a fixed apology.
C10_ExtractionFailureCountedStep ==
    (Accepted /\ inp'.llm.kind \in {"json_error", "exception"}) =>
        /\ After.consecutive_errors = Before.consecutive_errors + 1
        /\ out'.reply \in {MSG_JSON_FALLBACK, MSG_LLM_FALLBACK, MSG_EMPTY_RESPONSE,
                           MSG_ERROR_TRANSFER}

C10_ExtractionFailureCounted == [][C10_ExtractionFailureCountedStep]_vars


TooShort(speech) == Len(StripOf[speech]) < MIN_SPEECH_LEN

\* C11 as stated: an empty, whitespace-only or one-character utterance is
\* answered with the "I didn't catch that" reply.
C11_Original_RejectedDidntCatchStep ==
    (GatherStep /\ TooShort(inp'.speech)) => out'.reply = MSG_DIDNT_CATCH

C11_Original_RejectedDidntCatch == [][C11_Original_RejectedDidntCatchStep]_vars

\* C11 amended: such an utterance, at any stage, is rejected: an empty or
\* whitespace-only one with the "I didn't catch that" reply, a one-character
\* one with the "I didn't quite get that" reply; the whole session (turn_count,
\* consecutive_errors, stage, current_order, transcript) is as before and
\* extraction is not consulted.
C11_RejectedUtteranceFrameStep ==
    (GatherStep /\ TooShort(inp'.speech))
    => /\ out'.path = "rejected"
       /\ out'.reply = (IF StripOf[inp'.speech] = "" THEN MSG_DIDNT_CATCH ELSE MSG_DIDNT_GET)
       /\ out'.twiml = "gather"
       /\ After = Before
       /\ inp'.llm = NoLLM

C11_RejectedUtteranceFrame == [][C11_RejectedUtteranceFrameStep]_vars

\* C11 witness: a one-character utterance was rejected in Review, on a session
\* that has counted turns and holds an order and a transcript
C11_Witness ==
    /\ HasSession
    /\ inp.event = "gather"
    /\ inp.speech = "a"
    /\ out.path = "rejected"
    /\ out.reply = MSG_DIDNT_GET
    /\ Session.stage = REVIEW
    /\ Session.turn_count > 0
    /\ has_items(Session)
    /\ Session.transcript # <<>>

\* the reply texts of _handle_remove_item
RemovedReply(item_name) ==
    "Removed " \o item_name \o " from your order. Anything else you'd like to change?"

NotFoundReply(item_name) ==
    "I don't see " \o item_name \o " in your order. What else would you like to change?"

\* what the agent hands to the action handlers on this step
AgentOf == process_user_input(AcceptUtterance(Before), inp'.speech, inp'.llm)

\* C12: on a turn processed while the stage is Ordering, a remove_item action
\* leaves the order as it was and the remove handler's replies are not given.
C12_RemoveInOrderingDowngradedStep ==
    (Accepted /\ Before.stage = ORDERING /\ inp'.llm.action.type = "remove_item")
    => /\ After.current_order = Before.current_order
       /\ out'.reply \notin {RemovedReply(inp'.llm.action.item_name),
                             NotFoundReply(inp'.llm.action.item_name)}

C12_RemoveInOrderingDowngraded == [][C12_RemoveInOrderingDowngradedStep]_vars

\* C12 witness: a turn with remove_item(burger) completed in Ordering and the
\* burger is still in the order
C12_Witness ==
    /\ HasSession
    /\ inp.llm.action.type = "remove_item"
    /\ out.path = "completed"
    /\ Session.stage = ORDERING
    /\ Session.current_order = <<BurgerPlain>>

OnMenu(item_name) == LowerOf[StripOf[item_name]] \in DOMAIN MenuPriceCents

\* C13: an add_item action naming an item that is not on the menu leaves the
\* order and the pending-clarification slot as they were, and the turn replies.
C13_UnknownItemNotAddedStep ==
    ( /\ Accepted
      /\ inp'.llm.action.type = "add_item"
      /\ ~OnMenu(inp'.llm.action.item_name) )
    => /\ After.current_order = Before.current_order
       /\ After.pending_modifiers_item_index = Before.pending_modifiers_item_index
       /\ out'.reply # ""

C13_UnknownItemNotAdded == [][C13_UnknownItemNotAddedStep]_vars

\* C13 witness: add_item(pizza) reached the handler in Ordering and was
\* answered with the not-on-the-menu note
C13_Witness ==
    /\ HasSession
    /\ inp.llm.action.type = "add_item"
    /\ inp.llm.action.item_name = "pizza"
    /\ out.path = "completed"
    /\ out.reply = LLM_TEXT \o " Item 'pizza' is not on the menu"
    /\ Session.stage = ORDERING

\* the add_item action of this step reaches its handler with an item of the menu
AddApplied ==
    /\ out'.path = "completed"
    /\ AgentOf.agent_response.action.type = "add_item"
    /\ is_action_allowed_in_stage("add_item", AgentOf.state.stage)
    /\ StripOf[inp'.llm.action.item_name] # ""
    /\ OnMenu(inp'.llm.action.item_name)

\* C14: every accepted add_item appends exactly one entry, the item as given, at
\* the end of the order and leaves the earlier entries as they were; an
\* add_item that is not accepted leaves the order as it was.  By induction N
\* accepted adds grow the order by N entries in the order of application.
C14_AddAppendsOneStep ==
    (Accepted /\ inp'.llm.action.type = "add_item")
    => IF AddApplied
       THEN After.current_order =
                Append(Before.current_order,
                       OrderItem(inp'.llm.action.item_name, inp'.llm.action.quantity,
                                 inp'.llm.action.modifiers))
       ELSE After.current_order = Before.current_order

C14_AddAppendsOne == [][C14_AddAppendsOneStep]_vars

\* C14 witness: the second add_item(burger) was applied and the order holds two
\* separate burger entries
C14_Witness ==
    /\ HasSession
    /\ inp.llm.action.type = "add_item"
    /\ out.path = "completed"
    /\ Session.current_order = <<BurgerPlain, BurgerPlain>>

\* the remove_item action of the last turn was applied in Revision
RemoveAppliedBefore ==
    /\ HasSession
    /\ inp.event = "gather"
    /\ inp.llm.action.type = "remove_item"
    /\ out.path = "completed"
    /\ Session.stage = REVISION

\* C15: in Revision, a remove_item applied right after the same remove_item
\* reports "not found" and leaves the order as the first one left it.
C15_RemoveTwiceStep ==
    ( /\ RemoveAppliedBefore
      /\ GatherStep
      /\ inp'.llm.action = inp.llm.action
      /\ out'.path = "completed"
      /\ After.stage = REVISION )
    => /\ After.current_order = Before.current_order
       /\ out'.reply = NotFoundReply(inp'.llm.action.item_name)

C15_RemoveTwice == [][C15_RemoveTwiceStep]_vars

\* C15 witness: remove_item(burger) answered "not found" in Revision on an order
\* that an earlier remove_item emptied (Revision is entered with items only)
C15_Witness ==
    /\ RemoveAppliedBefore
    /\ Session.current_order = <<>>
    /\ out.reply = NotFoundReply("burger")

\* C16: a turn on which writing the order fails never replies with the
\* farewell; when that turn concludes the call its reply is the call-back
\* apology and the stage after it is Conclusion.
C16_PersistFailureReplyStep ==
    (GatherStep /\ out'.persist = "failed")
    => /\ out'.reply # MSG_FAREWELL
       /\ (inp'.llm.intent = "completing" \/ After.stage # Before.stage)
              => (out'.reply = MSG_CALL_BACK /\ After.stage = CONCLUSION)

C16_PersistFailureReply == [][C16_PersistFailureReplyStep]_vars

\* C16 witness: the concluding turn failed to write the order and replied with
\* the call-back apology
C16_Witness ==
    /\ HasSession
    /\ out.persist = "failed"
    /\ out.reply = MSG_CALL_BACK
    /\ Session.stage = CONCLUSION
    /\ has_items(Session)

\* C18: once the stage of a session is Conclusion, no turn changes it.
C18_ConclusionTerminalStep ==
    (GatherStep /\ HasSession /\ Session.stage = CONCLUSION) => After.stage = CONCLUSION

C18_ConclusionTerminal == [][C18_ConclusionTerminalStep]_vars

\* C18 witness: a turn with intent "ordering" completed on a session in
\* Conclusion (only intent "completing" concludes a completed turn, so the
\* session was in Conclusion before it) and the stage is still Conclusion
C18_Witness ==
    /\ HasSession
    /\ Session.stage = CONCLUSION
    /\ out.path = "completed"
    /\ inp.llm.intent = "ordering"
    /\ has_items(Session)

BothPhrases(speech) ==
    /\ AnyIn(revision_indicators, StripOf[LowerOf[speech]])
    /\ AnyIn(confirmation_indicators, StripOf[LowerOf[speech]])

\* C19: in Review with a non-empty order, a turn whose utterance holds both a
\* revision phrase and a confirmation phrase ends in Revision (extraction
\* returned a result, no governor intervened), whatever the intent.
C19_RevisionBeforeConfirmationStep ==
    ( /\ Accepted
      /\ Before.stage = REVIEW
      /\ has_items(Before)
      /\ BothPhrases(inp'.speech)
      /\ inp'.llm.kind = "ok"
      /\ ~GovernorForced )
    => After.stage = REVISION

C19_RevisionBeforeConfirmation == [][C19_RevisionBeforeConfirmationStep]_vars


StatusStep == inp'.event = "status"

\* C17: when end_session writes the status of the call, it writes "failed" if
\* the call has no order (no Order row and no item in the session), whatever
\* the telephony status; otherwise "completed", unless the telephony status is
\* failed, busy or no-answer, and then "failed".
C17_FinalStatusStep ==
    (StatusStep /\ db'.call # db.call)
    => db'.call =
          IF Len(db.orders) = 0 /\ ~(HasSession /\ has_items(Session)) THEN "failed"
          ELSE IF inp'.status \in {"failed", "busy", "no-answer"} THEN "failed"
          ELSE "completed"

C17_FinalStatus == [][C17_FinalStatusStep]_vars

\* C17 witness: a call without any order ended with telephony status
\* "completed" and was recorded as failed
C17_Witness ==
    /\ Ended
    /\ out.path = "ended"
    /\ inp.status = "completed"
    /\ db.orders = <<>>
    /\ db.call = "failed"

\* C20: once the call-ended signal of a call has been handled, no session of
\* that call is in the store.
C20_SessionRemovedAtEnd == Ended => ~HasSession


\* C26: a turn that begins with the session in Review, holding an order, leaves
\* the order as it was, whatever action extraction returns and whatever stage
\* the turn ends in.
C26_ReviewTurnKeepsOrderStep ==
    (Accepted /\ Before.stage = REVIEW /\ has_items(Before))
    => After.current_order = Before.current_order

C26_ReviewTurnKeepsOrder == [][C26_ReviewTurnKeepsOrderStep]_vars

\* C27: a turn that begins with the session in Greeting leaves the order as it
\* was: an add_item returned on the first utterance of a call adds nothing.
C27_GreetingTurnKeepsOrderStep ==
    (Accepted /\ Before.stage = GREETING) => After.current_order = Before.current_order

C27_GreetingTurnKeepsOrder == [][C27_GreetingTurnKeepsOrderStep]_vars

\* C28: a turn that is treated as a failure and does not trip the failure
\* governor leaves the stage and the order as they were (the first utterance of
\* a call, which leaves Greeting, set aside).
C28_FailureTurnCommitsNothingStep ==
    (GatherStep /\ out'.path = "error" /\ Before.stage # GREETING)
    => /\ After.stage = Before.stage
       /\ After.current_order = Before.current_order

C28_FailureTurnCommitsNothing == [][C28_FailureTurnCommitsNothingStep]_vars

\* C29: once an accepted utterance of a call has been processed, the stage of
\* its session is not Greeting.
C29_NeverGreetingAfterTurn ==
    (HasSession /\ Session.turn_count > 0) => Session.stage # GREETING

\* C30: an accepted add_item without modifiers appends the item with no
\* modifiers and sets pending_modifiers_item_index to the position of the new
\* item; one with modifiers appends the item with them and leaves the index
\* unset.
C30_AddSetsPendingIndexStep ==
    (Accepted /\ AddApplied)
    => LET added == After.current_order[Len(After.current_order)]
       IN  /\ Len(After.current_order) = Len(Before.current_order) + 1
           /\ added.modifiers = inp'.llm.action.modifiers
           /\ After.pending_modifiers_item_index =
                  (IF Len(inp'.llm.action.modifiers) = 0
                   THEN Len(After.current_order)
                   ELSE NoIndex)

C30_AddSetsPendingIndex == [][C30_AddSetsPendingIndexStep]_vars

\* C22: while a turn of a call is suspended in the extraction call, no other
\* handler's step changes the session that turn works on.
C22_OneTurnPerSessionStep ==
    \A h \in Handlers :
        (task[h].pc = "extracting" /\ task'[h] = task[h])
        => objs'[task[h].session] = objs[task[h].session]

C22_OneTurnPerSession == [][C22_OneTurnPerSessionStep]_vars

\* C23: a read-back given right after a read-back, the order unchanged in
\* between (the caller asked for a repeat in Review), is the same text.
C23_ReadBackRepeatsStep ==
    (GatherStep /\ readRun' = 2 /\ After.current_order = Before.current_order)
    => out'.reply = out.reply

ExactTotalCents(order) == (Subtotal(order) * (10000 + TAX_RATE_E4) + 5000) \div 10000

\* C24: the read-back of a non-empty order states the total computed exactly
\* from the order: subtotal plus subtotal times the tax rate, to two decimals.
C24_ReadBackTotalStep ==
    (GatherStep /\ IsReadBack(out'.reply) /\ has_items(After))
    => out'.reply =
           "Perfect! Here's your order: " \o OrderSummaryTts(After.current_order) \o "."
           \o " Your total is $" \o Money(ExactTotalCents(After.current_order)) \o "."
           \o " Does that look correct?"

C24_ReadBackTotal == [][C24_ReadBackTotalStep]_vars

\* the session stored for a call, if any
StoredSession(call_sid) ==
    IF store[call_sid] = 0 THEN <<>> ELSE <<objs[store[call_sid]]>>

StoredSessionAfter(call_sid) ==
    IF store'[call_sid] = 0 THEN <<>> ELSE <<objs'[store'[call_sid]]>>

\* C21: a step of a webhook of one call (of a turn, of the greeting or of the
\* call-ended signal, under any interleaving) leaves the stored session of
\* every other call as it was: present or absent, and all of its fields.
C21_SessionsIndependentStep ==
    \A h \in Webhooks :
        task'[h] # task[h] =>
            \A other \in Calls \ {task'[h].call} :
                StoredSessionAfter(other) = StoredSession(other)

C21_SessionsIndependent == [][C21_SessionsIndependentStep]_vars

\* C21 witness: a turn of CA1 and then its call-ended signal were handled
\* while CA2 has a session that has counted a turn
C21_Witness ==
    /\ \E h \in Webhooks :
           task[h].call = "CA1" /\ task[h].kind = "gather" /\ task[h].pc = "done"
    /\ \E h \in Webhooks :
           task[h].call = "CA1" /\ task[h].kind = "status" /\ task[h].pc = "done"
    /\ store["CA1"] = 0
    /\ \E i \in 1..Len(db) : db[i].call_sid = "CA1" /\ db[i].status # "in_progress"
    /\ store["CA2"] # 0
    /\ objs[store["CA2"]].turn_count = 1

\* C25: there is at most one row of the calls table per call, whatever the
\* interleaving of the create_call invocations, and a create_call that finds
\* the row of its call returns it and writes nothing.
C25_OneCallRecordStep ==
    /\ \A call_sid \in Calls : Cardinality(RowsOf(db', call_sid)) <= 1
    /\ \A h \in Webhooks :
           (task[h].pc = "selecting" /\ task'[h] # task[h] /\ RowsOf(db, task[h].call) # {})
           => (task'[h].pc = "storing" /\ db' = db)

C25_OneCallRecord == [][C25_OneCallRecordStep]_vars

\* C25 witness: two create_call invocations for one call raced, the INSERT of
\* the second was refused and the call has its one row
C25_Witness ==
    \E h \in Webhooks :
        /\ task[h].pc = "failed"
        /\ Cardinality(RowsOf(db, task[h].call)) = 1

\* the utterances that decline a clarification
BareNegatives == {"no", "none", "no thanks", "nothing"}

\* the last turn added an item without notes, which is the item a
\* clarification is pending for
ItemPendingClarification ==
    /\ HasSession
    /\ inp.event = "gather"
    /\ inp.llm.action.type = "add_item"
    /\ Len(inp.llm.action.modifiers) = 0
    /\ out.path = "completed"
    /\ Session.stage \in {ORDERING, REVISION}
    /\ has_items(Session)
    /\ Session.current_order[Len(Session.current_order)] =
           OrderItem(inp.llm.action.item_name, inp.llm.action.quantity, <<>>)

\* C31: a notes action handled in Ordering or Revision while an item is
\* pending clarification leaves the pending-clarification slot unset, and
\* appends the notes given to the pending item exactly when the utterance is
\* not a bare negative acknowledgment; otherwise the item's notes stay empty.
C31_NotesOnPendingItemStep ==
    ( /\ ItemPendingClarification
      /\ Accepted
      /\ out'.path = "completed"
      /\ inp'.llm.action.type \in {"add_notes", "add_modifiers"}
      /\ After.stage \in {ORDERING, REVISION} )
    => LET last == Len(Before.current_order)
       IN  /\ After.pending_modifiers_item_index = NoIndex
           /\ After.current_order =
                  IF StripOf[LowerOf[inp'.speech]] \in BareNegatives
                  THEN Before.current_order
                  ELSE [Before.current_order EXCEPT ![last].modifiers =
                            @ \o inp'.llm.action.modifiers]

C31_NotesOnPendingItem == [][C31_NotesOnPendingItemStep]_vars

FourFries == OrderItem("fries", 4, <<>>)

\* the positions of the entries of the order named as the action names its item
MatchesOf(order, action) ==
    {i \in 1..Len(order) :
        LowerOf[order[i].item_name] = LowerOf[StripOf[action.item_name]]}

Without(order, i) == SubSeq(order, 1, i - 1) \o SubSeq(order, i + 1, Len(order))

\* the remove_item action of this step reaches its handler, in Revision
RemoveApplied ==
    /\ out'.path = "completed"
    /\ AgentOf.agent_response.action.type = "remove_item"
    /\ AgentOf.state.stage = REVISION
    /\ StripOf[inp'.llm.action.item_name] # ""

\* C32 as stated: a remove_item applied in Revision removes exactly one entry,
\* the first whose name matches, and leaves the rest of the order as it was;
\* when no entry matches the order is as it was.
C32_Original_RemoveFirstMatchStep ==
    (Accepted /\ RemoveApplied)
    => LET matches == MatchesOf(Before.current_order, inp'.llm.action)
       IN  After.current_order =
               IF matches = {} THEN Before.current_order
               ELSE Without(Before.current_order,
                            CHOOSE i \in matches : \A j \in matches : i <= j)

C32_Original_RemoveFirstMatch == [][C32_Original_RemoveFirstMatchStep]_vars

\* C32 amended: a remove_item applied in Revision removes every entry whose
\* name matches, reports the removal, and leaves every other entry and the
\* relative order of the remaining entries as they were; when no entry matches
\* the order is as it was and "not found" is reported.
C32_RemoveEveryMatchStep ==
    (Accepted /\ RemoveApplied)
    => LET matches == MatchesOf(Before.current_order, inp'.llm.action)
       IN  /\ After.current_order =
                  SelectSeq(Before.current_order,
                            LAMBDA item : \A i \in matches : Before.current_order[i] # item)
           /\ \A i \in 1..Len(Before.current_order) :
                  i \notin matches =>
                      \E j \in 1..Len(After.current_order) :
                          After.current_order[j] = Before.current_order[i]
           /\ Len(After.current_order) = Len(Before.current_order) - Cardinality(matches)
           /\ out'.reply =
                  IF matches = {} THEN NotFoundReply(inp'.llm.action.item_name)
                  ELSE RemovedReply(inp'.llm.action.item_name)

C32_RemoveEveryMatch == [][C32_RemoveEveryMatchStep]_vars

\* C32 witness: remove_item(burger) was applied in Revision to an order that
\* held the four fries as well: the fries are what is left
C32_Witness ==
    /\ RemoveAppliedBefore
    /\ out.reply = RemovedReply("burger")
    /\ Session.current_order = <<FourFries>>

\* the reply of _handle_modify_item on a match
UpdatedReply(item_name) == "Updated " \o item_name \o ". Anything else you'd like to change?"

\* the notes a modify_item action carries, as the list an order item holds
NotesOf(action) ==
    IF action.modifiers_is_str
    THEN (IF Strip(action.modifiers[1]) # "" THEN <<Strip(action.modifiers[1])>> ELSE <<>>)
    ELSE action.modifiers

\* the modify_item action of this step reaches its handler, in Revision
ModifyReachesHandler ==
    /\ out'.path \in {"completed", "exception"}
    /\ AgentOf.agent_response.action.type = "modify_item"
    /\ AgentOf.state.stage = REVISION
    /\ StripOf[inp'.llm.action.item_name] # ""

\* C33: a modify_item applied in Revision replaces the notes of the item of
\* that name with the notes given (none given: no notes) and reports the
\* update; the item's name and quantity, every other item, and the length and
\* order of the order are as they were; when no item matches, the order is as
\* it was and "not found" is reported.
C33_ModifyReplacesNotesStep ==
    (Accepted /\ ModifyReachesHandler)
    => LET matches == MatchesOf(Before.current_order, inp'.llm.action)
       IN  /\ out'.path = "completed"
           /\ IF matches = {}
              THEN /\ After.current_order = Before.current_order
                   /\ out'.reply = NotFoundReply(inp'.llm.action.item_name)
              ELSE /\ After.current_order =
                          [Before.current_order EXCEPT
                              ![CHOOSE i \in matches : \A j \in matches : i <= j].modifiers =
                                  NotesOf(inp'.llm.action)]
                   /\ out'.reply = UpdatedReply(inp'.llm.action.item_name)

C33_ModifyReplacesNotes == [][C33_ModifyReplacesNotesStep]_vars

\* C34: a turn takes the stage from Review to Conclusion by confirmation only
\* when the order has been read back since Review was entered, that is, when
\* order_read_back is set as the turn starts.
C34_ConfirmAfterReadBackStep ==
    (Accepted /\ Before.stage = REVIEW /\ After.stage = CONCLUSION /\ ~GovernorForced)
    => Before.order_read_back

C34_ConfirmAfterReadBack == [][C34_ConfirmAfterReadBackStep]_vars

\* C35: the farewell that promises the order is the reply only of a turn that
\* wrote an order of at least one item to storage.
C35_FarewellOnlyAfterSaveStep ==
    (GatherStep /\ out'.reply = MSG_FAREWELL)
    => (out'.persist = "saved" /\ has_items(After))

C35_FarewellOnlyAfterSave == [][C35_FarewellOnlyAfterSaveStep]_vars

\* C36: the reply of every turn that leaves the stage at Conclusion hangs up
\* and gathers no further speech.
C36_ConclusionHangsUpStep ==
    (Accepted /\ After.stage = CONCLUSION) => out'.twiml = "hangup"

C36_ConclusionHangsUp == [][C36_ConclusionHangsUpStep]_vars

\* C38: a turn on which _persist_order reports failure leaves the Order rows
\* of the call as they were: no row of the attempt stays behind.
C38_PersistAllOrNothingStep ==
    (GatherStep /\ out'.persist = "failed") => db'.orders = db.orders

C38_PersistAllOrNothing == [][C38_PersistAllOrNothingStep]_vars

\* C39: after every accepted turn the last line of the session transcript is
\* the agent's line and its text is the reply given to the caller on that turn.
C39_TranscriptHoldsReplyStep ==
    Accepted =>
        /\ After.transcript # <<>>
        /\ After.transcript[Len(After.transcript)] = "Agent: " \o out'.reply

C39_TranscriptHoldsReply == [][C39_TranscriptHoldsReplyStep]_vars

\* C40: between turns, a session whose turn_count has reached MAX_TURNS is in
\* Conclusion, and so is one whose consecutive_errors has reached
\* MAX_CONSECUTIVE_ERRORS.
C40_GovernedSessionsConcluded ==
    HasSession =>
        /\ Session.turn_count >= MAX_TURNS => Session.stage = CONCLUSION
        /\ Session.consecutive_errors >= MAX_CONSECUTIVE_ERRORS => Session.stage = CONCLUSION

\* C40 witness: the error governor had concluded the call, a further turn
\* failed, and the turn governor then answered the 20th utterance
C40_Witness ==
    /\ HasSession
    /\ Session.turn_count = MAX_TURNS
    /\ Session.consecutive_errors > MAX_CONSECUTIVE_ERRORS
    /\ Session.stage = CONCLUSION
    /\ out.path = "turn_limit"

\* the call-ended signal of the call has been handled to its end: the status
\* of its Call row is final and its session is out of the store
CallEnded(call_sid) ==
    /\ store[call_sid] = 0
    /\ RowsOf(db, call_sid) # {}
    /\ \A i \in RowsOf(db, call_sid) : db[i].status # "in_progress"

OrdersOf(rows, call_sid) == [i \in RowsOf(rows, call_sid) |-> rows[i].orders]

\* C37: a turn that was suspended in the extraction call while the call-ended
\* signal of its call was handled to its end writes no order when it resumes.
C37_NoPersistAfterEndStep ==
    \A h \in Webhooks :
        (task[h].pc = "extracting" /\ task'[h].pc = "done" /\ CallEnded(task[h].call))
        => OrdersOf(db', task[h].call) = OrdersOf(db, task[h].call)

C37_NoPersistAfterEnd == [][C37_NoPersistAfterEndStep]_vars

====
